---- MODULE Spec2Model ----
(***************************************************************************)
(* Model of the highest-grossing-films scraper (src/as1.ipynb) and of the  *)
(* browser table that shows its output (src/script.js).                    *)
(*                                                                         *)
(* A Python str is a sequence of one-character strings; characters are     *)
(* ordered by code point (Ord), as Python orders them.  Python's None and  *)
(* an optional value are the tuples <<>> and <<v>>.                        *)
(***************************************************************************)
EXTENDS Integers, Sequences, FiniteSets, TLC

VARIABLES
    call,        \* the last direct call of one scraper function: its input and outcome
    pc,          \* the notebook run's position (which cell / await point it is at)
    links,       \* cell 7: links = list(get_film_links())
    tasks,       \* parse_film_data: one parse_film_page coroutine per link
    data,        \* cell 8: data
    db,          \* rows of the films table of grossing_films.db
    jsonFile,    \* content of grossing_films.json (<<>>: no file, <<list>>: the dumped list)
    replaced,    \* history: the last film export deleted rows of an earlier run that differ from its own
    loaded,      \* script.js: the films given to displayFilms
    tbody,       \* script.js: the <tr> elements of #filmTable tbody, in document order
    display,     \* script.js: row.style.display of each <tr>
    searchValue, \* script.js: the value of the #search input
    sortOrder,   \* script.js: let sortOrder = {}
    thClass,     \* script.js: the sort marker classes of each <th>
    clicks,      \* history: how many times each header was clicked
    lastClick    \* history: the column of the last header click and the direction it applied

vars == <<call, pc, links, tasks, data, db, jsonFile, replaced,
          loaded, tbody, display, searchValue, sortOrder, thClass, clicks, lastClick>>

pipelineVars == <<pc, links, tasks, data, db, jsonFile, replaced>>
pageVars == <<loaded, tbody, display, searchValue, sortOrder, thClass, clicks, lastClick>>

-----------------------------------------------------------------------------
(* Python values *)

None == <<>>
Some(v) == <<v>>
IsNone(o) == o = <<>>
ValueOf(o) == o[1]

\* Code points of the characters the model's texts use.
Ord ==
    (" " :> 32) @@ ("$" :> 36) @@ ("(" :> 40) @@ (")" :> 41) @@ ("," :> 44) @@
    ("0" :> 48) @@ ("1" :> 49) @@ ("2" :> 50) @@ ("7" :> 55) @@ ("9" :> 57) @@
    ("A" :> 65) @@ ("B" :> 66) @@ ("S" :> 83) @@ ("T" :> 84) @@ ("U" :> 85) @@
    ("[" :> 91) @@ ("]" :> 93) @@ ("a" :> 97) @@ ("b" :> 98) @@ ("c" :> 99) @@
    ("l" :> 108) @@ ("n" :> 110) @@ ("s" :> 115) @@ ("t" :> 116) @@ ("u" :> 117) @@ ("x" :> 120) @@
    ("nbsp" :> 160)

IsDigit(c) == Ord[c] \in 48..57

\* \w of Python's re: a letter, a digit or the underscore.
IsWordChar(c) == IsDigit(c) \/ Ord[c] \in 65..90 \/ Ord[c] \in 97..122 \/ Ord[c] = 95

\* bool(x) of a str or None: None and '' are false.
Truthy(o) == ~IsNone(o) /\ ValueOf(o) # <<>>

\* a or b
PyOr(a, b) == IF Truthy(a) THEN a ELSE b

\* str < str: lexicographic by code point, a proper prefix is smaller.
RECURSIVE StrLess(_, _)
StrLess(s, t) ==
    IF t = <<>> THEN FALSE
    ELSE IF s = <<>> THEN TRUE
    ELSE IF Ord[Head(s)] < Ord[Head(t)] THEN TRUE
    ELSE IF Ord[Head(s)] > Ord[Head(t)] THEN FALSE
    ELSE StrLess(Tail(s), Tail(t))

\* re.sub(r'\[.*?\]', '', s) and re.sub(r'\(.*?\)', '', s): from the leftmost
\* opening character, the shortest run up to a closing character is removed.
RECURSIVE ReSubDelimited(_, _, _)
ReSubDelimited(s, open, close) ==
    IF s = <<>> THEN <<>>
    ELSE IF Head(s) = open /\ \E j \in 2..Len(s) : s[j] = close
    THEN LET j == CHOOSE k \in 2..Len(s) :
                      s[k] = close /\ \A m \in 2..(k - 1) : s[m] # close
         IN  ReSubDelimited(SubSeq(s, j + 1, Len(s)), open, close)
    ELSE <<Head(s)>> \o ReSubDelimited(Tail(s), open, close)

\* s.split(', ')
RECURSIVE SplitCommaSpace(_)
SplitCommaSpace(s) ==
    IF \E i \in 1..(Len(s) - 1) : s[i] = "," /\ s[i + 1] = " "
    THEN LET i == CHOOSE k \in 1..(Len(s) - 1) :
                      /\ s[k] = "," /\ s[k + 1] = " "
                      /\ \A m \in 1..(k - 1) : ~(s[m] = "," /\ s[m + 1] = " ")
         IN  <<SubSeq(s, 1, i - 1)>> \o SplitCommaSpace(SubSeq(s, i + 2, Len(s)))
    ELSE <<s>>

\* ', '.join(parts)
RECURSIVE JoinCommaSpace(_)
JoinCommaSpace(parts) ==
    IF parts = <<>> THEN <<>>
    ELSE IF Len(parts) = 1 THEN parts[1]
    ELSE parts[1] \o <<",", " ">> \o JoinCommaSpace(Tail(parts))

\* s.strip(', '): every leading and trailing comma or space is removed.
RECURSIVE LStrip(_)
LStrip(s) ==
    IF s # <<>> /\ Head(s) \in {",", " "} THEN LStrip(Tail(s)) ELSE s

RECURSIVE RStrip(_)
RStrip(s) ==
    IF s # <<>> /\ s[Len(s)] \in {",", " "} THEN RStrip(SubSeq(s, 1, Len(s) - 1)) ELSE s

Strip(s) == RStrip(LStrip(s))

\* s.replace('US', '')
RECURSIVE RemoveUS(_)
RemoveUS(s) ==
    IF s = <<>> THEN <<>>
    ELSE IF Len(s) >= 2 /\ s[1] = "U" /\ s[2] = "S" THEN RemoveUS(SubSeq(s, 3, Len(s)))
    ELSE <<Head(s)>> \o RemoveUS(Tail(s))

\* s.replace('\xa0', ' ').replace(',', '')
RECURSIVE ReplaceNbspDropCommas(_)
ReplaceNbspDropCommas(s) ==
    IF s = <<>> THEN <<>>
    ELSE IF Head(s) = "," THEN ReplaceNbspDropCommas(Tail(s))
    ELSE <<IF Head(s) = "nbsp" THEN " " ELSE Head(s)>> \o ReplaceNbspDropCommas(Tail(s))

SelectSeqNotBlank(parts) ==
    LET keep(val) == val \notin {<<>>, <<" ">>} IN SelectSeq(parts, keep)

\* int('dddd')
DigitsToInt(d) ==
    1000 * (Ord[d[1]] - 48) + 100 * (Ord[d[2]] - 48) + 10 * (Ord[d[3]] - 48) + (Ord[d[4]] - 48)

-----------------------------------------------------------------------------
(* Fetcher *)

\* What one GET can end in: no response at all, or a response with a status and a body.
TransportError == [transport |-> TRUE]
Response(status, body) == [transport |-> FALSE, status |-> status, body |-> body]

Raise(exc) == [kind |-> "raise", exc |-> exc]
ReturnNone == [kind |-> "return", val |-> None]
Return(v) == [kind |-> "return", val |-> Some(v)]

\* requests: Response.raise_for_status() raises HTTPError for 400 <= status < 600.
\* requests.get raises ConnectionError / Timeout, which are not HTTPError, when
\* no response arrives.
fetch_url(resp) ==
    IF resp.transport THEN Raise("requests.ConnectionError")
    ELSE IF resp.status \in 400..599 THEN ReturnNone
    ELSE Return(resp.body)

\* httpx: Response.raise_for_status() raises HTTPStatusError for every status
\* outside 200..299.  client.get raises a TransportError (ConnectError, a
\* timeout), which is not an HTTPStatusError, when no response arrives.
fetch_url_async(resp) ==
    IF resp.transport THEN Raise("httpx.TransportError")
    ELSE IF resp.status \notin 200..299 THEN ReturnNone
    ELSE Return(resp.body)

-----------------------------------------------------------------------------
(* Page Parser *)

\* A fetched body: '' or an HTML document.  Of a detail page the model keeps the
\* infobox ('table.infobox.vevent tbody', None when the selector matches nothing):
\* the text of its first <tr> (None when it has no <tr>) and, per label, the <th>
\* with that string (None when there is none) with the text of the <td> that
\* follows it (None when none follows).
EmptyBody == [kind |-> "empty"]
DetailPage(panel) == [kind |-> "detail", panel |-> panel]
IndexPage(tables) == [kind |-> "index", tables |-> tables]

\* not page_content
NoContent(val) == IsNone(val) \/ ValueOf(val).kind = "empty"

Labels ==
    {"Release date", "Release dates", "Released", "Directed by", "Box office",
     "Country", "Countries"}

get_info(info_box, label) ==
    LET row == info_box.rows[label]
    IN  IF ~IsNone(row) /\ ~IsNone(ValueOf(row)) THEN ValueOf(row) ELSE None

\* re.search(r'\b(\d{4})\b', date_text): the first four digits that no word
\* character touches on either side.
YearAt(s, i) ==
    /\ \A k \in i..(i + 3) : IsDigit(s[k])
    /\ (i = 1 \/ ~IsWordChar(s[i - 1]))
    /\ (i + 3 = Len(s) \/ ~IsWordChar(s[i + 4]))

extract_year(date_text) ==
    IF \E i \in 1..(Len(date_text) - 3) : YearAt(date_text, i)
    THEN LET i == CHOOSE k \in 1..(Len(date_text) - 3) :
                      YearAt(date_text, k) /\ \A m \in 1..(k - 1) : ~YearAt(date_text, m)
         IN  Some(DigitsToInt(SubSeq(date_text, i, i + 3)))
    ELSE None

\* clean_multivalued with a fault: value_list = value.split(', '), no item is dropped.
clean_multivalued_keep_blank(value) ==
    LET unbracketed == ReSubDelimited(ReSubDelimited(value, "[", "]"), "(", ")")
    IN  Strip(JoinCommaSpace(SplitCommaSpace(unbracketed)))

clean_multivalued(value) ==
    LET unbracketed == ReSubDelimited(ReSubDelimited(value, "[", "]"), "(", ")")
        value_list == SelectSeqNotBlank(SplitCommaSpace(unbracketed))
    IN  Strip(JoinCommaSpace(value_list))

clean_box_office(value) ==
    Strip(ReplaceNbspDropCommas(ReSubDelimited(value, "[", "]")))

\* The dictionary parse_film_page builds from an infobox that has its first row
\* and its 'Box office' row, and a release date text.
film_data(info_box, url) ==
    LET release_year == PyOr(PyOr(get_info(info_box, "Release date"),
                                  get_info(info_box, "Release dates")),
                             get_info(info_box, "Released"))
        director == get_info(info_box, "Directed by")
        box_office == RemoveUS(ValueOf(get_info(info_box, "Box office")))
        country == PyOr(get_info(info_box, "Country"), get_info(info_box, "Countries"))
    IN  [title |-> ValueOf(info_box.title),
         release_year |-> extract_year(ValueOf(release_year)),
         director |-> IF Truthy(director)
                      THEN Some(clean_multivalued(ValueOf(director))) ELSE None,
         box_office |-> IF box_office # <<>> THEN Some(clean_box_office(box_office)) ELSE None,
         country |-> IF Truthy(country)
                     THEN Some(clean_multivalued(ValueOf(country))) ELSE None,
         url |-> url]

\* What awaiting parse_film_page(client, url) ends in when the GET ends in resp.
parse_film_page(resp, url) ==
    LET page_content == fetch_url_async(resp)
    IN  IF page_content.kind = "raise" THEN page_content
        ELSE IF NoContent(page_content.val) THEN ReturnNone
        ELSE LET panel == ValueOf(page_content.val).panel
             IN  IF IsNone(panel) THEN ReturnNone
                 ELSE LET info_box == ValueOf(panel)
                          release_year == PyOr(PyOr(get_info(info_box, "Release date"),
                                                    get_info(info_box, "Release dates")),
                                               get_info(info_box, "Released"))
                      IN  \* info_box.find('tr').text with no <tr>
                          IF IsNone(info_box.title)
                          THEN Raise("AttributeError")
                          \* get_info('Box office').replace('US', '') on None
                          ELSE IF IsNone(get_info(info_box, "Box office"))
                          THEN Raise("AttributeError")
                          \* re.search(pattern, None) in extract_year
                          ELSE IF IsNone(release_year)
                          THEN Raise("TypeError")
                          ELSE IF info_box.title = Some(<<>>)
                          THEN ReturnNone
                          ELSE Return(film_data(info_box, url))

-----------------------------------------------------------------------------
(* Link Extractor *)

WIKI_BASE_URL == "https://en.wikipedia.org"

\* urljoin(WIKI_BASE_URL, href) of an href that is a path on the site or the
\* full URL of such a path.
urljoin(base, href) == base \o href.path

\* The link of one row: row.th is the href of the <a> under <th scope="row"><i>,
\* row.td the one under the first <td>'s <i>; None when any element of the chain
\* or the href is missing.
RowLink(i, row) == IF i < 2 THEN row.th ELSE row.td

\* film_links after the loops over tables (a sequence of tables, each a sequence
\* of rows); enumerate() counts from 0.
LinksOfTables(tables) ==
    UNION { { urljoin(WIKI_BASE_URL, ValueOf(RowLink(i - 1, tables[i][r]))) :
                r \in { k \in 1..Len(tables[i]) : ~IsNone(RowLink(i - 1, tables[i][k])) } } :
            i \in 1..Len(tables) }

get_film_links(resp, parse_all_links) ==
    LET page_content == fetch_url(resp)
    IN  IF page_content.kind = "raise" THEN page_content
        ELSE IF NoContent(page_content.val) THEN Return({})
        ELSE LET found == ValueOf(page_content.val).tables
             IN  IF parse_all_links THEN Return(LinksOfTables(found))
                 \* [soup.select_one(...)] is [None] when no table matches:
                 \* None.select('tbody tr')
                 ELSE IF found = <<>> THEN Raise("AttributeError")
                 ELSE Return(LinksOfTables(<<found[1]>>))

-----------------------------------------------------------------------------
(* Inputs: what the network can answer *)

Statuses == {200, 204, 304, 404, 500}

UrlA == "https://en.wikipedia.org/wiki/A"
UrlB == "https://en.wikipedia.org/wiki/B"
UrlC == "https://en.wikipedia.org/wiki/C"

\* Texts of infobox cells, as get_text(', ', strip=True) gives them.
TxtTitle == <<"T", "a">>
TxtYear == <<"2", "0", "0", "9">>
TxtTwoYears == <<"a", "1", "9", "9", "7", ",", " ", "2", "0", "0", "9">>
TxtDirectors == <<"A", "[", "1", "]", ",", " ", "B", " ", "(", "x", ")">>
TxtOnlyCitation == <<"[", "1", "]">>
TxtBox9 == <<"U", "S", "$", "9">>
TxtBox10 == <<"$", "1", ",", "0", "nbsp", "[", "2", "]">>
TxtUS == <<"U", "S">>
TxtCountries == <<"U", "S", ",", " ", "A">>

\* Items of a director or country cell: names, bracketed citations and
\* parenthetical annotations (with and without a ', ' inside).  No item holds a
\* line break, which '.' of the patterns would not match.
ItemNameA == <<"A">>
ItemNameB == <<"B">>
ItemNameAB == <<"A", " ", "B">>
ItemCitation == <<"[", "1", "]">>
ItemCitations == <<"[", "1", ",", " ", "2", "]">>
ItemAnnotation == <<"(", "x", ")">>
ItemAnnotations == <<"(", "a", ",", " ", "b", ")">>

FieldItems ==
    {ItemNameA, ItemNameB, ItemNameAB, ItemCitation, ItemCitations,
     ItemAnnotation, ItemAnnotations}

NoRow == None
RowWithoutCell == Some(None)
Row(text) == Some(Some(text))

Panel(title, rd, rds, rel, dir, box, country, countries) ==
    [title |-> title,
     rows |-> [l \in Labels |->
                 CASE l = "Release date" -> rd
                   [] l = "Release dates" -> rds
                   [] l = "Released" -> rel
                   [] l = "Directed by" -> dir
                   [] l = "Box office" -> box
                   [] l = "Country" -> country
                   [] l = "Countries" -> countries]]

Titles == {None, Some(<<>>), Some(TxtTitle)}
ReleaseDateRows == {NoRow, Row(TxtYear)}
ReleaseDatesRows == {NoRow, Row(<<>>)}
ReleasedRows == {NoRow, RowWithoutCell, Row(TxtTwoYears)}
DirectorRows == {NoRow, Row(TxtDirectors), Row(TxtOnlyCitation)}
BoxOfficeRows == {NoRow, Row(TxtBox9), Row(TxtBox10), Row(TxtUS)}
CountryRows == {NoRow, Row(TxtUS)}
CountriesRows == {NoRow, Row(TxtCountries)}

Panels ==
    { Panel(t, rd, rds, rel, dir, box, c, cs) :
        t \in Titles, rd \in ReleaseDateRows, rds \in ReleaseDatesRows,
        rel \in ReleasedRows, dir \in DirectorRows, box \in BoxOfficeRows,
        c \in CountryRows, cs \in CountriesRows }

DetailBodies == {EmptyBody, DetailPage(None)} \cup { DetailPage(Some(p)) : p \in Panels }

\* Every answer to the GET of a detail page; the body of an answer that is not
\* a 200 is never read.
DetailResponses ==
    {TransportError}
      \cup { Response(200, b) : b \in DetailBodies }
      \cup { Response(s, EmptyBody) : s \in Statuses \ {200} }

\* hrefs of the index page's rows: a path, or the full URL of a path.
HrefA == [absolute |-> FALSE, path |-> "/wiki/A"]
HrefB == [absolute |-> FALSE, path |-> "/wiki/B"]
HrefBFull == [absolute |-> TRUE, path |-> "/wiki/B"]

RowThA == [th |-> Some(HrefA), td |-> None]
RowTdB == [th |-> None, td |-> Some(HrefB)]
RowBoth == [th |-> Some(HrefBFull), td |-> Some(HrefA)]
RowNoLink == [th |-> None, td |-> None]

Tables == {<<>>, <<RowThA>>, <<RowTdB, RowNoLink>>, <<RowBoth, RowThA>>}

\* How many matching tables an index page of the model has at most.
MaxTables == 3

RECURSIVE SeqsUpTo(_, _)
SeqsUpTo(S, n) ==
    IF n = 0 THEN {<<>>}
    ELSE LET shorter == SeqsUpTo(S, n - 1)
         IN  shorter \cup { Append(q, x) : q \in shorter, x \in S }

\* How many items a director or country cell of the model has at most.
MaxItems == 3

\* get_text(', ', strip=True) of a cell: its items joined by ', '.
FieldText(items) == JoinCommaSpace(items)

FieldTexts == { FieldText(items) : items \in SeqsUpTo(FieldItems, MaxItems) \ {<<>>} }

IndexBodies == {EmptyBody} \cup { IndexPage(t) : t \in SeqsUpTo(Tables, MaxTables) }

IndexResponses ==
    {TransportError}
      \cup { Response(200, b) : b \in IndexBodies }
      \cup { Response(s, EmptyBody) : s \in Statuses \ {200} }

FetchResponses ==
    {TransportError}
      \cup { Response(s, b) : s \in Statuses, b \in {EmptyBody, DetailPage(None), IndexPage(<<>>)} }

-----------------------------------------------------------------------------
(* Direct calls of the scraper's functions, one input each *)

CallInputs ==
    { [fn |-> "fetch", resp |-> r, sync |-> None, async |-> None] : r \in FetchResponses }
      \cup { [fn |-> "get_film_links", resp |-> r, parse_all_links |-> f, out |-> None] :
               r \in IndexResponses, f \in BOOLEAN }
      \cup { [fn |-> "parse_film_page", resp |-> r, url |-> UrlA, out |-> None] :
               r \in DetailResponses }
      \cup { [fn |-> "clean_multivalued", value |-> v, out |-> None] : v \in FieldTexts }

CallFetchUrl ==
    /\ call.fn = "fetch" /\ IsNone(call.sync)
    /\ call' = [call EXCEPT !.sync = Some(fetch_url(call.resp))]
    /\ UNCHANGED <<pipelineVars, pageVars>>

CallFetchUrlAsync ==
    /\ call.fn = "fetch" /\ IsNone(call.async)
    /\ call' = [call EXCEPT !.async = Some(fetch_url_async(call.resp))]
    /\ UNCHANGED <<pipelineVars, pageVars>>

CallGetFilmLinks ==
    /\ call.fn = "get_film_links" /\ IsNone(call.out)
    /\ call' = [call EXCEPT !.out = Some(get_film_links(call.resp, call.parse_all_links))]
    /\ UNCHANGED <<pipelineVars, pageVars>>

CallParseFilmPage ==
    /\ call.fn = "parse_film_page" /\ IsNone(call.out)
    /\ call' = [call EXCEPT !.out = Some(parse_film_page(call.resp, call.url))]
    /\ UNCHANGED <<pipelineVars, pageVars>>

CallCleanMultivalued ==
    /\ call.fn = "clean_multivalued" /\ IsNone(call.out)
    /\ call' = [call EXCEPT !.out = Some(clean_multivalued(call.value))]
    /\ UNCHANGED <<pipelineVars, pageVars>>

NoCall == [fn |-> "none"]

-----------------------------------------------------------------------------
(* Batch Orchestrator and Exporter: one run of the notebook, cell by cell *)

\* The answers a run of the notebook can get.
PanelWithBox(box) ==
    Panel(Some(TxtTitle), Row(TxtYear), NoRow, NoRow, Row(TxtDirectors), box, Row(TxtUS), NoRow)

RunDetailResponses ==
    {TransportError, Response(404, EmptyBody), Response(200, DetailPage(None))}
      \cup { Response(200, DetailPage(Some(PanelWithBox(box)))) : box \in BoxOfficeRows }

\* How many film links the index page of a run has at most.
MaxLinks == 2

HrefC == [absolute |-> FALSE, path |-> "/wiki/C"]
HrefD == [absolute |-> FALSE, path |-> "/wiki/D"]
RunHrefs == <<HrefA, HrefBFull, HrefC, HrefD>>

\* The first matching table of a run's index page: n rows with a film link,
\* then a row without one.
RunTable(n) == [i \in 1..(n + 1) |->
                  IF i <= n THEN [th |-> Some(RunHrefs[i]), td |-> None] ELSE RowNoLink]

RunIndexResponses ==
    {TransportError, Response(500, EmptyBody), Response(200, IndexPage(<<>>))}
      \cup { Response(200, IndexPage(<<RunTable(n), <<RowTdB>>>>)) : n \in 0..MaxLinks }

\* list(a_set): the elements in some order.
ListsOf(S) ==
    { q \in [1..Cardinality(S) -> S] : \A i, j \in DOMAIN q : q[i] = q[j] => i = j }

Pending == [kind |-> "pending"]
Ended(t) == t.kind # "pending"
Raised(t) == t.kind = "raise"
ReturnedFilm(t) == t.kind = "return" /\ ~IsNone(t.val)

\* GatherReturns with a fault: gather returns with the first coroutine that has returned.
GatherReturnsFirstCompleted(ts) == ts = <<>> \/ \E i \in DOMAIN ts : ts[i].kind = "return"

\* await asyncio.gather(*tasks) returns once every awaitable has returned ...
GatherReturns(ts) == \A i \in DOMAIN ts : ts[i].kind = "return"

\* ... and raises as soon as one of them has raised (return_exceptions is False).
GatherRaises(ts) == \E i \in DOMAIN ts : Raised(ts[i])

\* films = [film for film in results if film]
FilterFilms(results) ==
    LET films == SelectSeq(results, ReturnedFilm)
    IN  [i \in 1..Len(films) |-> ValueOf(films[i].val)]

\* key=lambda film: film.get('box_office', 0): the key is None for a film whose
\* box_office is None, and comparing None with anything is a TypeError; every
\* element of a list of two or more is compared at least once.
SortRaises(films) ==
    Len(films) >= 2 /\ \E i \in 1..Len(films) : IsNone(films[i].box_office)

KeyLess(a, b) == StrLess(ValueOf(a.box_office), ValueOf(b.box_office))

\* Where a stable descending sort puts film into a list already sorted: behind
\* every element whose key is not smaller.
RECURSIVE InsertDescending(_, _)
InsertDescending(sorted, film) ==
    IF sorted = <<>> THEN <<film>>
    ELSE IF KeyLess(Head(sorted), film) THEN <<film>> \o sorted
    ELSE <<Head(sorted)>> \o InsertDescending(Tail(sorted), film)

\* data.sort(key=..., reverse=True) of a list whose keys can be compared.
RECURSIVE data_sort(_)
data_sort(films) ==
    IF films = <<>> THEN <<>>
    ELSE InsertDescending(data_sort(SubSeq(films, 1, Len(films) - 1)), films[Len(films)])

\* session_query_delete with a fault: the rows of earlier runs stay.
session_query_keep(rows) == rows

\* session.query(Film).delete()
session_query_delete(rows) == <<>>

\* id INTEGER PRIMARY KEY: SQLite gives a new row the largest id in the table plus one.
NextId(rows) ==
    IF rows = <<>> THEN 1
    ELSE 1 + (CHOOSE m \in { rows[i].id : i \in 1..Len(rows) } :
                \A i \in 1..Len(rows) : rows[i].id <= m)

\* session.add_all([Film(**film) for film in data]); session.commit()
RECURSIVE session_add_all(_, _)
session_add_all(rows, films) ==
    IF films = <<>> THEN rows
    ELSE session_add_all(Append(rows, [id |-> NextId(rows), film |-> Head(films)]),
                         Tail(films))

\* Cell 7: links = list(get_film_links())
RunGetFilmLinks ==
    /\ pc = "start"
    /\ \E resp \in RunIndexResponses :
         LET out == get_film_links(resp, FALSE)
         IN  IF out.kind = "raise"
             THEN pc' = "links_failed" /\ links' = links
             ELSE pc' = "linked" /\ links' \in ListsOf(ValueOf(out.val))
    /\ UNCHANGED <<tasks, data, db, jsonFile, replaced, call, pageVars>>

\* Cell 8, parse_film_data up to its await: one coroutine per link, all handed
\* to asyncio.gather together.
Launch ==
    /\ pc = "linked"
    /\ tasks' = [i \in 1..Len(links) |-> Pending]
    /\ pc' = "gathering"
    /\ UNCHANGED <<links, data, db, jsonFile, replaced, call, pageVars>>

\* One coroutine's GET ends and the coroutine runs to its end.  Nothing cancels
\* a coroutine: it may end after gather has raised, and it may never end.
TaskStep(i) ==
    /\ pc \in {"gathering", "gather_failed"}
    /\ i \in DOMAIN tasks
    /\ tasks[i] = Pending
    /\ \E resp \in RunDetailResponses :
         tasks' = [tasks EXCEPT ![i] = [resp |-> resp] @@ parse_film_page(resp, links[i])]
    /\ UNCHANGED <<pc, links, data, db, jsonFile, replaced, call, pageVars>>

\* gather raises into parse_film_data, which raises into cell 8.
GatherRaise ==
    /\ pc = "gathering"
    /\ GatherRaises(tasks)
    /\ pc' = "gather_failed"
    /\ UNCHANGED <<links, tasks, data, db, jsonFile, replaced, call, pageVars>>

\* gather returns: the rest of parse_film_data and of cell 8 run without a
\* further await.  A sort that raises leaves data holding the films in an order
\* nothing reads afterwards.
GatherReturn ==
    /\ pc = "gathering"
    /\ GatherReturns(tasks)
    /\ ~GatherRaises(tasks)
    /\ LET films == FilterFilms(tasks)
       IN  IF SortRaises(films)
           THEN pc' = "sort_failed" /\ data' = films
           ELSE pc' = "sorted" /\ data' = data_sort(films)
    /\ UNCHANGED <<links, tasks, db, jsonFile, replaced, call, pageVars>>

\* Cell 11: delete every row, add one per film, commit.
ExportDb ==
    /\ pc = "sorted"
    /\ replaced' = (db # <<>> /\ [i \in 1..Len(db) |-> db[i].film] # data)
    /\ db' = session_add_all(session_query_delete(db), data)
    /\ pc' = "stored"
    /\ UNCHANGED <<links, tasks, data, jsonFile, call, pageVars>>

\* Cell 12: json.dump(data, f) into a truncated file.
ExportJson ==
    /\ pc = "stored"
    /\ jsonFile' = Some(data)
    /\ pc' = "done"
    /\ UNCHANGED <<links, tasks, data, db, replaced, call, pageVars>>

\* The notebook is run again; the database file and the JSON file stay.
RunAgain ==
    /\ pc \in {"done", "links_failed", "gather_failed", "sort_failed"}
    /\ pc' = "start"
    /\ links' = <<>>
    /\ tasks' = <<>>
    /\ data' = <<>>
    /\ UNCHANGED <<db, jsonFile, replaced, call, pageVars>>

PipelineInit ==
    /\ pc = "start"
    /\ links = <<>>
    /\ tasks = <<>>
    /\ data = <<>>
    /\ db = <<>>
    /\ jsonFile = None
    /\ replaced = FALSE

PageIdle ==
    /\ loaded = <<>>
    /\ tbody = <<>>
    /\ display = <<>>
    /\ searchValue = <<>>
    /\ sortOrder = <<>>
    /\ thClass = <<>>
    /\ clicks = <<>>
    /\ lastClick = None

CallsInit == call \in CallInputs /\ PipelineInit /\ PageIdle

CallsNext ==
    \/ CallFetchUrl \/ CallFetchUrlAsync \/ CallGetFilmLinks \/ CallParseFilmPage
    \/ CallCleanMultivalued

SpecCalls == CallsInit /\ [][CallsNext]_vars

Init == call = NoCall /\ PipelineInit /\ PageIdle

Next ==
    \/ RunGetFilmLinks
    \/ Launch
    \/ \E i \in 1..MaxLinks : TaskStep(i)
    \/ GatherRaise
    \/ GatherReturn
    \/ ExportDb
    \/ ExportJson
    \/ RunAgain

Spec == Init /\ [][Next]_vars

-----------------------------------------------------------------------------
(* Presentation: script.js *)

\* The <td> cells displayFilms gives a row, and the <th> cells above them.
NumCols == 5
Cols == 0..(NumCols - 1)

\* How many header clicks a behaviour of the model has at most.
MaxClicks == 3

\* How many films the loaded JSON has at most.
MaxFilms == 3

\* String.prototype.toLowerCase on the model's characters.
LowerOf(c) ==
    IF Ord[c] \in 65..90 THEN CHOOSE d \in DOMAIN Ord : Ord[d] = Ord[c] + 32 ELSE c

ToLower(s) == [i \in 1..Len(s) |-> LowerOf(s[i])]

\* String.prototype.includes
Includes(s, part) ==
    \E i \in 0..(Len(s) - Len(part)) : SubSeq(s, i + 1, i + Len(part)) = part

\* String.prototype.trim
RECURSIVE Trim(_)
Trim(s) ==
    IF s # <<>> /\ Head(s) = " " THEN Trim(Tail(s))
    ELSE IF s # <<>> /\ s[Len(s)] = " " THEN Trim(SubSeq(s, 1, Len(s) - 1))
    ELSE s

\* `${value}` of a template literal: null gives 'null', a number its digits.
DigitChar(d) == CHOOSE c \in DOMAIN Ord : Ord[c] = 48 + d

RECURSIVE NumberText(_)
NumberText(n) ==
    IF n < 10 THEN <<DigitChar(n)>> ELSE NumberText(n \div 10) \o <<DigitChar(n % 10)>>

TemplateText(opt) == IF IsNone(opt) THEN <<"n", "u", "l", "l">> ELSE ValueOf(opt)

\* row.cells[columnIndex].textContent of the row displayFilms makes of a film:
\* the text put into the cell's HTML, which the model's characters (no <, >, &)
\* pass through unchanged.
CellText(film, col) ==
    CASE col = 0 -> film.title
      [] col = 1 -> IF IsNone(film.release_year) THEN TemplateText(None)
                    ELSE NumberText(ValueOf(film.release_year))
      [] col = 2 -> TemplateText(film.director)
      [] col = 3 -> TemplateText(film.box_office)
      [] col = 4 -> TemplateText(film.country)

\* localeCompare with the default collation: strings compare by the primary
\* weights of their characters (space, punctuation, currency sign, digits,
\* letters without their case), and strings equal in those by case, lower case
\* first.
Primary(c) ==
    CASE c = " " -> 1
      [] c = "," -> 2
      [] c = "(" -> 3
      [] c = ")" -> 4
      [] c = "[" -> 5
      [] c = "]" -> 6
      [] c = "$" -> 7
      [] IsDigit(c) -> Ord[c]
      [] OTHER -> 100 + Ord[LowerOf(c)]

CaseWeight(c) == IF Ord[c] \in 65..90 THEN 1 ELSE 0

\* Two strings compared character by character by one kind of weight.
RECURSIVE CompareBy(_, _, _)
CompareBy(level, a, b) ==
    LET weight(c) == IF level = "primary" THEN Primary(c) ELSE CaseWeight(c)
    IN  IF a = <<>> /\ b = <<>> THEN 0
        ELSE IF a = <<>> THEN -1
        ELSE IF b = <<>> THEN 1
        ELSE IF weight(Head(a)) < weight(Head(b)) THEN -1
        ELSE IF weight(Head(a)) > weight(Head(b)) THEN 1
        ELSE CompareBy(level, Tail(a), Tail(b))

localeCompare(a, b) ==
    IF CompareBy("primary", a, b) # 0 THEN CompareBy("primary", a, b)
    ELSE CompareBy("case", a, b)

\* Matches with a fault: the search text is not lower-cased.
MatchesCaseOfSearch(title, search) == Includes(ToLower(title), search)

\* filterFilms: title.includes(searchValue) on the two lower-cased texts
Matches(title, search) == Includes(ToLower(title), ToLower(search))

filterFilms(films, search) ==
    [r \in 1..Len(films) |-> IF Matches(CellText(films[r], 0), search) THEN "" ELSE "none"]

\* IsAscending with a fault: one toggle for the whole table.
IsAscendingShared(order, columnIndex) == \A c \in Cols : order[c] # "true"

\* const isAscending = !sortOrder[columnIndex]
IsAscending(order, columnIndex) == order[columnIndex] # "true"

\* The comparator of rows.sort on two rows' films.
Comparator(films, columnIndex, isAscending, a, b) ==
    LET valA == Trim(CellText(films[a], columnIndex))
        valB == Trim(CellText(films[b], columnIndex))
    IN  IF isAscending THEN localeCompare(valA, valB) ELSE localeCompare(valB, valA)

\* Array.prototype.sort is stable: a row goes behind every row the comparator
\* does not put after it.
RECURSIVE InsertRow(_, _, _, _, _)
InsertRow(sorted, row, films, columnIndex, isAscending) ==
    IF sorted = <<>> THEN <<row>>
    ELSE IF Comparator(films, columnIndex, isAscending, Head(sorted), row) > 0
    THEN <<row>> \o sorted
    ELSE <<Head(sorted)>> \o InsertRow(Tail(sorted), row, films, columnIndex, isAscending)

RECURSIVE rows_sort(_, _, _, _)
rows_sort(rows, films, columnIndex, isAscending) ==
    IF rows = <<>> THEN <<>>
    ELSE InsertRow(rows_sort(SubSeq(rows, 1, Len(rows) - 1), films, columnIndex, isAscending),
                   rows[Len(rows)], films, columnIndex, isAscending)

\* The films of the JSON file the page loads; their urls differ, as the links
\* of a run do.
FilmTa ==
    [title |-> <<"T", "a">>, release_year |-> Some(2009), director |-> Some(<<"A", ",", " ", "B">>),
     box_office |-> Some(<<"$", "9">>), country |-> Some(<<"U", "S">>), url |-> UrlA]
FilmAt ==
    [title |-> <<"a", "t">>, release_year |-> None, director |-> None,
     box_office |-> Some(<<"$", "1", "0">>), country |-> Some(<<"A">>), url |-> UrlB]
FilmB ==
    [title |-> <<" ", "b">>, release_year |-> Some(1997), director |-> Some(<<"a">>),
     box_office |-> None, country |-> Some(<<"A">>), url |-> UrlC]

PageFilms == {FilmTa, FilmAt, FilmB}

SearchTexts == {<<>>, <<"t">>, <<"T">>, <<"A", "T">>, <<"x">>}

\* The page once the JSON is loaded: displayFilms(data) has made one row per
\* film, the search box is empty and no header has a marker.
PageInit ==
    /\ loaded \in { q \in SeqsUpTo(PageFilms, MaxFilms) :
                      \A i, j \in DOMAIN q : q[i] = q[j] => i = j }
    /\ tbody = [i \in 1..Len(loaded) |-> i]
    /\ display = [i \in 1..Len(loaded) |-> ""]
    /\ searchValue = <<>>
    /\ sortOrder = [c \in Cols |-> "undefined"]
    /\ thClass = [c \in Cols |-> {}]
    /\ clicks = [c \in Cols |-> 0]
    /\ lastClick = None

\* The user changes the search box: the input listener runs filterFilms().
InputSearch(text) ==
    /\ text # searchValue
    /\ searchValue' = text
    /\ display' = filterFilms(loaded, text)
    /\ UNCHANGED <<loaded, tbody, sortOrder, thClass, clicks, lastClick, call, pipelineVars>>

TotalClicks == clicks[0] + clicks[1] + clicks[2] + clicks[3] + clicks[4]

\* The user clicks a header: sortTable(columnIndex).
HeaderClick(columnIndex) ==
    /\ TotalClicks < MaxClicks
    /\ LET isAscending == IsAscending(sortOrder, columnIndex)
       IN  /\ sortOrder' = [sortOrder EXCEPT ![columnIndex] =
                               IF isAscending THEN "true" ELSE "false"]
           /\ thClass' = [c \in Cols |->
                            IF c = columnIndex
                            THEN (thClass[c] \ {"sorted-asc", "sorted-desc"})
                                   \cup {IF isAscending THEN "sorted-asc" ELSE "sorted-desc"}
                            ELSE thClass[c] \ {"sorted-asc", "sorted-desc"}]
           /\ tbody' = rows_sort(tbody, loaded, columnIndex, isAscending)
           /\ lastClick' = Some([col |-> columnIndex, asc |-> isAscending])
    /\ clicks' = [clicks EXCEPT ![columnIndex] = @ + 1]
    /\ UNCHANGED <<loaded, display, searchValue, call, pipelineVars>>

PageSpecInit == call = NoCall /\ PipelineInit /\ PageInit

PageNext ==
    \/ \E text \in SearchTexts : InputSearch(text)
    \/ \E c \in Cols : HeaderClick(c)

SpecPage == PageSpecInit /\ [][PageNext]_vars

-----------------------------------------------------------------------------
(* Properties of the run *)

RunFilms == FilterFilms(tasks)
UrlsOf(films) == { films[i].url : i \in 1..Len(films) }
RowFilms(rows) == [i \in 1..Len(rows) |-> rows[i].film]
BatchOver == pc \in {"gather_failed", "sorted", "sort_failed", "stored", "done"}
AllEnded == \A i \in DOMAIN tasks : Ended(tasks[i])

\* C1: a page whose parse fails hard (no 'Box office' row) is a per-item
\* failure: once the batch is over and every operation has ended, with only
\* parse failures among them, every film a page yielded is in the list
\* parse_film_data returned.
C1_ParseFailureIsPerItem ==
    (/\ BatchOver
     /\ AllEnded
     /\ \A i \in DOMAIN tasks :
          Raised(tasks[i]) => tasks[i].exc \in {"AttributeError", "TypeError"})
    => \A i \in DOMAIN tasks :
         ReturnedFilm(tasks[i]) => \E k \in 1..Len(data) : data[k] = ValueOf(tasks[i].val)

\* A completed sort has left the films in descending order of the box_office
\* strings, equal ones in their order before the sort.
SortedRunsAreStableDescending ==
    pc \in {"sorted", "stored", "done"} =>
         /\ Len(data) = Len(RunFilms)
         /\ UrlsOf(data) = UrlsOf(RunFilms)
         /\ \A i, j \in 1..Len(data) : i < j => ~KeyLess(data[i], data[j])
         /\ \A i, j \in 1..Len(data) :
              (i < j /\ data[i].box_office = data[j].box_office) =>
                \E m, n \in 1..Len(RunFilms) :
                  m < n /\ RunFilms[m] = data[i] /\ RunFilms[n] = data[j]

\* C5: the sort step completes for every list parse_film_data returns, also
\* one with a null box_office, and leaves it in descending order of the
\* box_office strings with equal ones in their order before the sort.
C5_SortCompletesStableDescending ==
    pc # "sort_failed" /\ SortedRunsAreStableDescending

NotFetched(resp) == resp.transport \/ resp.status \notin 200..299 \/ resp.body.kind = "empty"
NoPanel(resp) == ~NotFetched(resp) /\ IsNone(resp.body.panel)

AbsentFromExport(url) ==
    /\ BatchOver => url \notin UrlsOf(data)
    /\ pc \in {"stored", "done"} => url \notin UrlsOf(RowFilms(db))
    /\ (pc = "done" /\ ~IsNone(jsonFile)) => url \notin UrlsOf(ValueOf(jsonFile))

\* C6: for a URL whose page has no key-fact panel, or could not be fetched,
\* parse_film_page returns None, and after the batch no record with that URL
\* is in the returned list, the table or the JSON file.
C6_NoPanelNoRecord ==
    \A i \in DOMAIN tasks :
      (Ended(tasks[i]) /\ (NoPanel(tasks[i].resp) \/ NotFetched(tasks[i].resp))) =>
        /\ tasks[i].kind = "return" /\ IsNone(tasks[i].val)
        /\ AbsentFromExport(links[i])

\* The part of C6 the code keeps: a page without panel, or one answered with an
\* HTTP error status.
NoPanelOrHttpErrorNoRecord ==
    \A i \in DOMAIN tasks :
      (Ended(tasks[i]) /\ ~tasks[i].resp.transport
         /\ (NoPanel(tasks[i].resp) \/ NotFetched(tasks[i].resp))) =>
        /\ tasks[i].kind = "return" /\ IsNone(tasks[i].val)
        /\ AbsentFromExport(links[i])

\* C7: after any sequence of completed runs of the exporter the films table
\* holds one row per record of the most recent run and none of an earlier run,
\* with ids increasing in the order of the sorted list, and the JSON file holds
\* that list in that order.  (Between the two sinks of one run, pc = "stored",
\* the file still holds the run before.)
C7_SinksHoldLastRun ==
    /\ pc = "done" => (RowFilms(db) = data /\ jsonFile = Some(data))
    /\ pc # "stored" =>
         RowFilms(db) = (IF IsNone(jsonFile) THEN <<>> ELSE ValueOf(jsonFile))
    /\ \A i, j \in 1..Len(db) : i < j => db[i].id < db[j].id

C7_Witness ==
    pc = "done" /\ replaced /\ Len(data) >= 2 /\ data[1].box_office # data[2].box_office

\* C10: the operations are launched together, and the filter, the sort and both
\* sinks start only after every launched operation has ended; while one has
\* not, the run has no export.
C10_Barrier ==
    /\ pc \in {"gathering", "gather_failed", "sorted", "sort_failed", "stored", "done"} =>
         DOMAIN tasks = 1..Len(links)
    /\ pc \in {"sorted", "sort_failed", "stored", "done"} => AllEnded
    /\ (\E i \in DOMAIN tasks : tasks[i] = Pending) =>
         (pc \in {"gathering", "gather_failed"} /\ data = <<>>)

C10_Witness ==
    /\ pc = "done"
    /\ Len(links) >= 2
    /\ \E i \in DOMAIN tasks : ReturnedFilm(tasks[i])
    /\ \E i \in DOMAIN tasks : tasks[i].kind = "return" /\ IsNone(tasks[i].val)

-----------------------------------------------------------------------------
(* Properties of the functions called directly *)

Success(out) == out.kind = "return" /\ ~IsNone(out.val)

\* C2: for every fetch outcome both fetch_url and fetch_url_async return the
\* body (2xx only) or None, neither ever raises, and the two agree on success
\* and failure.
C2_FetchersNeverRaise ==
    call.fn = "fetch" =>
      /\ \A out \in {call.sync, call.async} :
           ~IsNone(out) =>
             /\ ValueOf(out).kind = "return"
             /\ Success(ValueOf(out)) =>
                  (~call.resp.transport /\ call.resp.status \in 200..299)
      /\ (~IsNone(call.sync) /\ ~IsNone(call.async)) =>
           (Success(ValueOf(call.sync)) <=> Success(ValueOf(call.async)))

\* The part of C2 the code keeps: a response with a 2xx, 4xx or 5xx status.
FetchersAgreeOnSuccessAndHttpError ==
    (call.fn = "fetch" /\ ~call.resp.transport /\ call.resp.status \notin 300..399) =>
      /\ \A out \in {call.sync, call.async} :
           ~IsNone(out) =>
             /\ ValueOf(out).kind = "return"
             /\ Success(ValueOf(out)) <=> call.resp.status \in 200..299
      /\ (~IsNone(call.sync) /\ ~IsNone(call.async)) =>
           (Success(ValueOf(call.sync)) <=> Success(ValueOf(call.async)))

HasPanelWithTitle(resp) ==
    /\ ~NotFetched(resp)
    /\ ~IsNone(resp.body.panel)
    /\ Truthy(ValueOf(resp.body.panel).title)

RowsAbsent(resp, labels) == \A l \in labels : IsNone(ValueOf(resp.body.panel).rows[l])

\* C3: a page with an info panel and a non-empty title yields a record whatever
\* subset of release date, director and country it has, each absent one null on
\* its own; a page with none of the three release-date labels yields a record
\* with release_year null.  Stated for the pages that have their 'Box office'
\* row, whose absence is C1's case.
C3_PartialExtraction ==
    (/\ call.fn = "parse_film_page"
     /\ ~IsNone(call.out)
     /\ HasPanelWithTitle(call.resp)
     /\ ~IsNone(get_info(ValueOf(call.resp.body.panel), "Box office"))) =>
      /\ Success(ValueOf(call.out))
      /\ RowsAbsent(call.resp, {"Release date", "Release dates", "Released"}) =>
           IsNone(ValueOf(ValueOf(call.out).val).release_year)
      /\ RowsAbsent(call.resp, {"Directed by"}) =>
           IsNone(ValueOf(ValueOf(call.out).val).director)
      /\ RowsAbsent(call.resp, {"Country", "Countries"}) =>
           IsNone(ValueOf(ValueOf(call.out).val).country)

\* The part of C3 the code keeps: with a release-date text and the box-office
\* row there, director and country are null when absent, each on its own.
DirectorAndCountryAreOptional ==
    (/\ call.fn = "parse_film_page"
     /\ ~IsNone(call.out)
     /\ HasPanelWithTitle(call.resp)
     /\ ~IsNone(get_info(ValueOf(call.resp.body.panel), "Box office"))
     /\ \E l \in {"Release date", "Release dates", "Released"} :
          Truthy(get_info(ValueOf(call.resp.body.panel), l))) =>
      /\ Success(ValueOf(call.out))
      /\ RowsAbsent(call.resp, {"Directed by"}) =>
           IsNone(ValueOf(ValueOf(call.out).val).director)
      /\ RowsAbsent(call.resp, {"Country", "Countries"}) =>
           IsNone(ValueOf(ValueOf(call.out).val).country)

\* C4: get_film_links returns the empty set, without raising, whenever the
\* index page could not be fetched or has no matching table, for both values of
\* parse_all_links.  Stated for the GETs that got a response; one that got none
\* is C2's case.
C4_EmptySetWithoutIndex ==
    (/\ call.fn = "get_film_links"
     /\ ~IsNone(call.out)
     /\ ~call.resp.transport
     /\ (NotFetched(call.resp) \/ call.resp.body.tables = <<>>)) =>
      ValueOf(call.out) = Return({})

\* The part of C4 the code keeps: the page answered with an error status or an
\* empty body, or parse_all_links is True.
EmptySetWhenNotFetchedOrAllLinks ==
    (/\ call.fn = "get_film_links"
     /\ ~IsNone(call.out)
     /\ ~call.resp.transport
     /\ (NotFetched(call.resp) \/ (call.resp.body.tables = <<>> /\ call.parse_all_links))) =>
      ValueOf(call.out) = Return({})

\* s has a segment that opens with open and closes, later, with close.
HasSegment(s, open, close) ==
    \E i \in 1..Len(s) : \E j \in (i + 1)..Len(s) : s[i] = open /\ s[j] = close

\* s has two commas with nothing or only spaces between them.
HasEmptyItem(s) ==
    \E i \in 1..Len(s) : \E j \in (i + 1)..Len(s) :
        /\ s[i] = "," /\ s[j] = ","
        /\ \A k \in (i + 1)..(j - 1) : s[k] = " "

EndsClean(s) == s = <<>> \/ (s[1] \notin {",", " "} /\ s[Len(s)] \notin {",", " "})

\* C11: for every director or country text made of names, bracketed citations
\* and parenthetical annotations joined by ', ', what clean_multivalued returns
\* has no bracketed and no parenthetical segment, has no empty item between
\* separators, and neither starts nor ends with a comma or a space.
C11_CleanMultivaluedShape ==
    (call.fn = "clean_multivalued" /\ ~IsNone(call.out)) =>
        LET out == ValueOf(call.out)
        IN  /\ ~HasSegment(out, "[", "]")
            /\ ~HasSegment(out, "(", ")")
            /\ ~HasEmptyItem(out)
            /\ EndsClean(out)

\* A text that starts with a citation and has an annotation between two names
\* was cleaned to the two names.
C11_Witness ==
    /\ call.fn = "clean_multivalued"
    /\ call.value = FieldText(<<ItemCitation, ItemNameA, ItemAnnotation>>)
    /\ call.out = Some(<<"A">>)

\* The names of a text are what is left of it, in order, joined by ', '.
CleanMultivaluedKeepsTheNames ==
    \A items \in SeqsUpTo(FieldItems, MaxItems) \ {<<>>} :
        (call.fn = "clean_multivalued" /\ call.value = FieldText(items) /\ ~IsNone(call.out)) =>
            LET isName(item) == item \in {ItemNameA, ItemNameB, ItemNameAB}
            IN  ValueOf(call.out) = JoinCommaSpace(SelectSeq(items, isName))

-----------------------------------------------------------------------------
(* Properties of the page *)

RowText(r, col) == Trim(CellText(loaded[r], col))

\* C8: the k-th click on a column sorts ascending when k is odd and descending
\* when k is even, whatever was clicked in between; after a click exactly one
\* header has a sort marker, the clicked one, and the marker is the direction
\* just applied.
C8_ToggleSortPerColumn ==
    ~IsNone(lastClick) =>
      LET col == ValueOf(lastClick).col
          asc == ValueOf(lastClick).asc
      IN  /\ asc <=> (clicks[col] % 2 = 1)
          /\ thClass[col] = {IF asc THEN "sorted-asc" ELSE "sorted-desc"}
          /\ \A c \in Cols \ {col} : thClass[c] = {}
          /\ \A i, j \in 1..Len(tbody) :
               i < j =>
                 IF asc
                 THEN localeCompare(RowText(tbody[i], col), RowText(tbody[j], col)) <= 0
                 ELSE localeCompare(RowText(tbody[i], col), RowText(tbody[j], col)) >= 0

C8_Witness ==
    /\ ~IsNone(lastClick)
    /\ ValueOf(lastClick).col = 3
    /\ ~ValueOf(lastClick).asc
    /\ clicks[3] = 2
    /\ clicks[0] = 1
    /\ Len(tbody) = 3
    /\ tbody # <<1, 2, 3>>

\* C9: after any search-input changes and header clicks the table body holds
\* exactly the rows made from the loaded JSON, none removed and none twice, and
\* a row is hidden exactly when its title does not contain the search text,
\* case ignored.
C9_RowsKeptAndFiltered ==
    /\ Len(tbody) = Len(loaded)
    /\ { tbody[i] : i \in 1..Len(tbody) } = 1..Len(loaded)
    /\ DOMAIN display = 1..Len(loaded)
    /\ \A r \in 1..Len(loaded) :
         display[r] = "none" <=>
           ~Includes(ToLower(loaded[r].title), ToLower(searchValue))

C9_Witness ==
    /\ searchValue = <<"A", "T">>
    /\ ~IsNone(lastClick)
    /\ Len(tbody) = 3
    /\ tbody # <<1, 2, 3>>
    /\ \E r \in 1..3 : display[r] = "none"
    /\ \E r \in 1..3 : display[r] = ""

====
